---- MODULE Spec2Model ----
(***************************************************************************)
(* Model of the two Metal demonstration programs of gpu_misc:              *)
(*   metal/compute_add     - one compute dispatch adding two float arrays, *)
(*                           followed by a CPU verification of the result; *)
(*   metal/raster_triangle - a winit event loop rendering one triangle per *)
(*                           redraw request.                               *)
(* A behaviour runs one of the two programs (variable program).  The GPU   *)
(* is a separate agent: a committed command buffer completes in its own    *)
(* step, in commit order per command queue.                                *)
(*                                                                         *)
(* Floats.  Buffer elements are f32 values that are whole multiples of     *)
(* q = 2^-21 with a small numerator; on those f32 addition, subtraction    *)
(* and abs are exact, so an element is represented by its numerator.  The  *)
(* literal 0.000001 lies strictly between 2q (9.54e-7) and 3q (1.43e-6),   *)
(* so "abs(d) > 0.000001" is "abs(d) > 2" on numerators.                   *)
(***************************************************************************)
EXTENDS Integers, Sequences, FiniteSets, TLC

VARIABLES
    program,          \* which binary runs: "compute" or "render"
    \* ---- compute_add ----
    pc,               \* position of compute_add's main
    array_length,     \* let array_length
    buffer_a,         \* contents of buffer_a   [0..array_length-1 -> Int]
    buffer_b,         \* contents of buffer_b
    result_buffer,    \* contents of result_buffer
    max_threads,      \* pipeline_state.max_total_threads_per_threadgroup()
    command_buffer,   \* compute: the command buffer, None before it exists
    verified,         \* what verify_results did, None before it ran
    exit_status,      \* compute: None while running, then the exit code
    \* ---- raster_triangle ----
    metal_state,      \* App.metal_state: None or the MetalState
    redraw_pending,   \* a request_redraw() not yet delivered
    exiting,          \* event_loop.exit() has been called
    drawable_size,    \* layer.drawable_size() of the current layer
    inflight,         \* committed, not yet completed render command buffers
    queues_created,   \* number of device.new_command_queue() calls
    pipelines_created,\* number of device.new_render_pipeline_state() calls
    render_tick,      \* number of render() calls, modulo 3
    last_render,      \* outcome of the last render(): "none","skipped","drawn"
    close_delivered,  \* a CloseRequested/Escape event reached window_event
    \* ---- both ----
    hazard            \* the CPU wrote a buffer a committed, uncompleted
                      \* command buffer binds

computeVars == <<pc, array_length, buffer_a, buffer_b, result_buffer,
                 max_threads, command_buffer, verified, exit_status>>
renderVars == <<metal_state, redraw_pending, exiting, drawable_size, inflight,
                queues_created, pipelines_created, render_tick, last_render,
                close_delivered>>
vars == <<program, pc, array_length, buffer_a, buffer_b, result_buffer,
          max_threads, command_buffer, verified, exit_status,
          metal_state, redraw_pending, exiting, drawable_size, inflight,
          queues_created, pipelines_created, render_tick, last_render,
          close_delivered, hazard>>

\* Option::None; Some(x) is x, always a record
None == [none |-> TRUE]

\* ------------------------------------------------------------------ bounds
MaxLen == 3          \* array_length ranges over 1..MaxLen
MaxThreads == 4      \* the pipeline reports a maximum in 1..MaxThreads
MaxResumed == 2      \* resumed is delivered at most MaxResumed times

\* --------------------------------------------------------- program constants
Tolerance == 2             \* 0.000001, in units of q (see the header)
MaximumDrawableCount == 3  \* CAMetalLayer default of MetalLayer::new()
VertexCount == 3           \* draw_primitives(Triangle, 0, 3)
AAPL_VERTEX_INPUT_INDEX_VERTICES == 0
AAPL_VERTEX_INPUT_INDEX_VIEWPORT_SIZE == 1

\* values rand::random::<f32>() stores (numerators of q)
RandomFloats == {0, 1}
\* error of the device's sum against the f32 sum: exact, within the
\* tolerance, beyond it (on either side)
DeviceErrors == {-3, 0, 2}
\* drawable sizes the layer takes: 800x600 logical at scale 1 and scale 2
DrawableSizes == {<<800, 600>>, <<1600, 1200>>}

Abs(x) == IF x < 0 THEN -x ELSE x
Indices(n) == 0 .. (n - 1)
Zeroed(n) == [i \in Indices(n) |-> 0]

\* ================================================================= compute_add

\* threadgroup_size.width
threadgroup_width_max(max, length) == max
threadgroup_width(max, length) == IF max > length THEN length ELSE max

\* grid_size.width
grid_width(length) == length

\* the operations main records into and performs on its command buffer
ComputeEncodeOps == <<"new_command_buffer", "dispatch_threads", "end_encoding">>

\* verify_results: the for loop from index i, with the success flag, the
\* indices printed as errors and the indices examined so far
RECURSIVE verify_loop_nobreak(_, _, _, _, _, _)
verify_loop_nobreak(a, b, result, length, i, acc) ==
    IF i >= length THEN acc
    ELSE LET expected == a[i] + b[i]
             seen == [acc EXCEPT !.examined = Append(@, i)]
         IN IF Abs(result[i] - expected) > Tolerance
            THEN verify_loop_nobreak(a, b, result, length, i + 1,
                     [seen EXCEPT !.success = FALSE,
                                  !.errors = Append(@, i)])
            ELSE verify_loop_nobreak(a, b, result, length, i + 1, seen)

RECURSIVE verify_loop(_, _, _, _, _, _)
verify_loop(a, b, result, length, i, acc) ==
    IF i >= length THEN acc
    ELSE LET expected == a[i] + b[i]
             seen == [acc EXCEPT !.examined = Append(@, i)]
         IN IF Abs(result[i] - expected) > Tolerance
            THEN [seen EXCEPT !.success = FALSE,
                              !.errors = Append(@, i)]     \* break
            ELSE verify_loop(a, b, result, length, i + 1, seen)

\* verify_results: the scan, then "Compute results as expected" iff success
verify_results(a, b, result, length) ==
    LET r == verify_loop(a, b, result, length, 0,
                 [success |-> TRUE, errors |-> <<>>, examined |-> <<>>])
    IN [success |-> r.success, errors |-> r.errors, examined |-> r.examined,
        printed_ok |-> r.success]

\* a CPU store into a buffer races with the GPU when a committed command
\* buffer that binds the buffer has not completed
ComputeGpuMayAccess ==
    command_buffer # None /\ command_buffer.status = "committed"

\* device, command queue and the three new_buffer calls
Allocate ==
    /\ program = "compute" /\ pc = "start"
    /\ buffer_a' = Zeroed(array_length)
    /\ buffer_b' = Zeroed(array_length)
    /\ result_buffer' = Zeroed(array_length)
    /\ pc' = "fill_a"
    /\ UNCHANGED <<program, array_length, max_threads, command_buffer,
                   verified, exit_status, hazard>>
    /\ UNCHANGED renderVars

\* generate_random_float_data(&buffer_a, array_length)
FillA ==
    /\ program = "compute" /\ pc = "fill_a"
    /\ \E data \in [Indices(array_length) -> RandomFloats] : buffer_a' = data
    /\ hazard' = (hazard \/ ComputeGpuMayAccess)
    /\ pc' = "fill_b"
    /\ UNCHANGED <<program, array_length, buffer_b, result_buffer, max_threads,
                   command_buffer, verified, exit_status>>
    /\ UNCHANGED renderVars

\* generate_random_float_data(&buffer_b, array_length)
FillB ==
    /\ program = "compute" /\ pc = "fill_b"
    /\ \E data \in [Indices(array_length) -> RandomFloats] : buffer_b' = data
    /\ hazard' = (hazard \/ ComputeGpuMayAccess)
    /\ pc' = "pipeline"
    /\ UNCHANGED <<program, array_length, buffer_a, result_buffer, max_threads,
                   command_buffer, verified, exit_status>>
    /\ UNCHANGED renderVars

\* library, function and compute pipeline state; the pipeline reports its
\* maximum threads per threadgroup
BuildPipeline ==
    /\ program = "compute" /\ pc = "pipeline"
    /\ \E m \in 1 .. MaxThreads : max_threads' = m
    /\ pc' = "encode"
    /\ UNCHANGED <<program, array_length, buffer_a, buffer_b, result_buffer,
                   command_buffer, verified, exit_status, hazard>>
    /\ UNCHANGED renderVars

\* new_command_buffer .. end_encoding
Encode ==
    /\ program = "compute" /\ pc = "encode"
    /\ command_buffer' =
           [status |-> "encoded",
            ops |-> ComputeEncodeOps,
            buffers |-> <<"buffer_a", "buffer_b", "result_buffer">>,
            grid_width |-> grid_width(array_length),
            threadgroup_width |-> threadgroup_width(max_threads, array_length)]
    /\ pc' = "commit"
    /\ UNCHANGED <<program, array_length, buffer_a, buffer_b, result_buffer,
                   max_threads, verified, exit_status, hazard>>
    /\ UNCHANGED renderVars

\* command_buffer.commit()
Commit ==
    /\ program = "compute" /\ pc = "commit"
    /\ command_buffer' = [command_buffer EXCEPT !.status = "committed",
                                                !.ops = Append(@, "commit")]
    /\ pc' = "wait"
    /\ UNCHANGED <<program, array_length, buffer_a, buffer_b, result_buffer,
                   max_threads, verified, exit_status, hazard>>
    /\ UNCHANGED renderVars

\* the device runs the committed dispatch: result[i] = a[i] + b[i], up to the
\* device's error
GPUExecute ==
    /\ program = "compute"
    /\ command_buffer # None /\ command_buffer.status = "committed"
    /\ \E err \in [Indices(array_length) -> DeviceErrors] :
           result_buffer' = [i \in Indices(array_length) |->
                                 buffer_a[i] + buffer_b[i] + err[i]]
    /\ command_buffer' = [command_buffer EXCEPT !.status = "completed"]
    /\ UNCHANGED <<program, pc, array_length, buffer_a, buffer_b, max_threads,
                   verified, exit_status, hazard>>
    /\ UNCHANGED renderVars

\* command_buffer.wait_until_completed() returns
wait_returns_early == TRUE
wait_until_completed == command_buffer.status = "completed"

Wait ==
    /\ program = "compute" /\ pc = "wait"
    /\ wait_until_completed
    /\ pc' = "verify"
    /\ UNCHANGED <<program, array_length, buffer_a, buffer_b, result_buffer,
                   max_threads, command_buffer, verified, exit_status, hazard>>
    /\ UNCHANGED renderVars

\* verify_results(..), then main returns
Verify ==
    /\ program = "compute" /\ pc = "verify"
    /\ verified' = [outcome |-> verify_results(buffer_a, buffer_b,
                                               result_buffer, array_length),
                    gpu_status |-> command_buffer.status,
                    ops_before |-> command_buffer.ops]
    /\ pc' = "done"
    /\ exit_status' = [code |-> 0]
    /\ UNCHANGED <<program, array_length, buffer_a, buffer_b, result_buffer,
                   max_threads, command_buffer, hazard>>
    /\ UNCHANGED renderVars

\* ============================================================= raster_triangle

\* triangle_vertices, copied into vertex_buffer by new_buffer_with_data
triangle_vertices ==
    <<[position |-> <<250, -250>>, color |-> <<1, 0, 0, 1>>],
      [position |-> <<-250, -250>>, color |-> <<0, 1, 0, 1>>],
      [position |-> <<0, 250>>, color |-> <<0, 0, 1, 1>>]>>

\* what render() does with its command buffer, in order
render_commands_present_late ==
    <<"new_command_buffer", "draw_primitives", "end_encoding", "commit",
      "present_drawable">>
render_commands ==
    <<"new_command_buffer", "draw_primitives", "end_encoding",
      "present_drawable", "commit">>

\* MetalState::new: the n-th MetalState, with its own layer, command queue,
\* pipeline state and buffers
MetalState_new(n) ==
    [layer |-> n,
     command_queue |-> queues_created + 1,
     pipeline_state |-> pipelines_created + 1,
     vertex_buffer |-> triangle_vertices,
     viewport_buffer |-> [id |-> n, contents |-> <<0, 0>>]]

\* update_viewport_buffer: the buffer's two floats after the copy
update_viewport_buffer_skipped(contents, view_size) == contents
update_viewport_buffer(contents, view_size) == view_size

\* drawables of the current layer not held by an uncompleted command buffer
AvailableDrawables ==
    MaximumDrawableCount
      - Cardinality({i \in DOMAIN inflight :
                        inflight[i].layer = metal_state.layer})

\* self.layer.next_drawable() returns Some
next_drawable == AvailableDrawables > 0

\* a committed, uncompleted command buffer binds the buffer
GpuMayRead(buffer_id) ==
    \E i \in DOMAIN inflight : inflight[i].viewport_buffer = buffer_id

\* the frame's command buffer as committed
FrameCommandBuffer(view_size, contents, ops) ==
    [layer |-> metal_state.layer,
     queue |-> metal_state.command_queue,
     pipeline |-> metal_state.pipeline_state,
     vertex_buffer |-> metal_state.vertex_buffer,
     viewport_buffer |-> metal_state.viewport_buffer.id,
     vertex_index |-> AAPL_VERTEX_INPUT_INDEX_VERTICES,
     viewport_index |-> AAPL_VERTEX_INPUT_INDEX_VIEWPORT_SIZE,
     viewport |-> view_size,
     viewport_at_draw |-> contents,
     frame_size |-> drawable_size,
     vertex_count |-> VertexCount,
     ops |-> ops]

\* render() that writes the viewport buffer before it asks for a drawable
render_write_first ==
    LET view_size == drawable_size
        contents == update_viewport_buffer(
                        metal_state.viewport_buffer.contents, view_size)
    IN /\ hazard' = (hazard \/ GpuMayRead(metal_state.viewport_buffer.id))
       /\ metal_state' =
              [metal_state EXCEPT !.viewport_buffer.contents = contents]
       /\ IF next_drawable
          THEN /\ inflight' = Append(inflight,
                      FrameCommandBuffer(view_size, contents, render_commands))
               /\ last_render' = "drawn"
          ELSE /\ last_render' = "skipped"
               /\ UNCHANGED inflight

\* MetalState::render
render ==
    IF next_drawable
    THEN LET view_size == drawable_size
             contents == update_viewport_buffer(
                             metal_state.viewport_buffer.contents, view_size)
         IN /\ hazard' = (hazard \/ GpuMayRead(metal_state.viewport_buffer.id))
            /\ metal_state' =
                   [metal_state EXCEPT !.viewport_buffer.contents = contents]
            /\ inflight' = Append(inflight,
                   FrameCommandBuffer(view_size, contents, render_commands))
            /\ last_render' = "drawn"
    ELSE /\ last_render' = "skipped"
         /\ UNCHANGED <<hazard, metal_state, inflight>>

\* the RedrawRequested arm that asks for the next redraw only after a frame
\* was drawn
redraw_arm_if_drawn ==
    /\ render
    /\ render_tick' = (render_tick + 1) % 3
    /\ redraw_pending' = (last_render' = "drawn")
    /\ UNCHANGED exiting

\* the RedrawRequested arm of window_event
redraw_arm ==
    /\ render
    /\ render_tick' = (render_tick + 1) % 3
    /\ redraw_pending' = TRUE
    /\ UNCHANGED exiting

\* App::window_event
window_event(event) ==
    IF metal_state # None
    THEN CASE event = "CloseRequested" ->
                /\ exiting' = TRUE
                /\ UNCHANGED <<metal_state, inflight, hazard, last_render,
                               render_tick, redraw_pending>>
           [] event = "Escape" ->
                /\ exiting' = TRUE
                /\ UNCHANGED <<metal_state, inflight, hazard, last_render,
                               render_tick, redraw_pending>>
           [] event = "RedrawRequested" -> redraw_arm
           [] OTHER ->
                UNCHANGED <<metal_state, inflight, hazard, last_render,
                            render_tick, redraw_pending, exiting>>
    ELSE UNCHANGED <<metal_state, inflight, hazard, last_render,
                     render_tick, redraw_pending, exiting>>

\* App::resumed
Resumed ==
    /\ program = "render" /\ ~exiting
    /\ queues_created < MaxResumed
    /\ metal_state' = MetalState_new(queues_created + 1)
    /\ queues_created' = queues_created + 1
    /\ pipelines_created' = pipelines_created + 1
    /\ \E size \in DrawableSizes : drawable_size' = size
    /\ redraw_pending' = TRUE
    /\ UNCHANGED <<program, exiting, inflight, render_tick, last_render,
                   close_delivered, hazard>>
    /\ UNCHANGED computeVars

\* the event loop delivers WindowEvent::CloseRequested
CloseRequested ==
    /\ program = "render" /\ ~exiting
    /\ close_delivered' = TRUE
    /\ window_event("CloseRequested")
    /\ UNCHANGED <<program, drawable_size, queues_created, pipelines_created>>
    /\ UNCHANGED computeVars

\* the event loop delivers a KeyboardInput event with KeyCode::Escape
KeyboardEscape ==
    /\ program = "render" /\ ~exiting
    /\ close_delivered' = TRUE
    /\ window_event("Escape")
    /\ UNCHANGED <<program, drawable_size, queues_created, pipelines_created>>
    /\ UNCHANGED computeVars

\* the event loop delivers the RedrawRequested that request_redraw asked for
RedrawRequested ==
    /\ program = "render" /\ ~exiting
    /\ redraw_pending
    /\ window_event("RedrawRequested")
    /\ UNCHANGED <<program, drawable_size, queues_created, pipelines_created,
                   close_delivered>>
    /\ UNCHANGED computeVars

\* the system asks for a redraw nobody requested
SystemRedraw ==
    /\ program = "render" /\ ~exiting
    /\ ~redraw_pending
    /\ window_event("RedrawRequested")
    /\ UNCHANGED <<program, drawable_size, queues_created, pipelines_created,
                   close_delivered>>
    /\ UNCHANGED computeVars

\* the window is resized: the layer's drawable size follows, and the event
\* falls in window_event's `_ => ()` arm
Resized ==
    /\ program = "render" /\ ~exiting
    /\ metal_state # None
    /\ \E size \in DrawableSizes \ {drawable_size} : drawable_size' = size
    /\ window_event("Resized")
    /\ UNCHANGED <<program, queues_created, pipelines_created,
                   close_delivered>>
    /\ UNCHANGED computeVars

RemoveAt(s, i) == SubSeq(s, 1, i - 1) \o SubSeq(s, i + 1, Len(s))

\* the device completes the oldest uncompleted command buffer of a queue and
\* its drawable returns to the layer
GPUComplete ==
    /\ program = "render"
    /\ \E i \in DOMAIN inflight :
           /\ \A j \in 1 .. (i - 1) : inflight[j].queue # inflight[i].queue
           /\ inflight' = RemoveAt(inflight, i)
    /\ UNCHANGED <<program, metal_state, redraw_pending, exiting,
                   drawable_size, queues_created, pipelines_created,
                   render_tick, last_render, close_delivered, hazard>>
    /\ UNCHANGED computeVars

\* ================================================================ specification

Init ==
    /\ program \in {"compute", "render"}
    /\ pc = "start"
    /\ array_length \in (IF program = "compute" THEN 1 .. MaxLen ELSE {1})
    /\ buffer_a = <<>> /\ buffer_b = <<>> /\ result_buffer = <<>>
    /\ max_threads = 0
    /\ command_buffer = None
    /\ verified = None
    /\ exit_status = None
    /\ metal_state = None
    /\ redraw_pending = FALSE
    /\ exiting = FALSE
    /\ drawable_size = <<0, 0>>
    /\ inflight = <<>>
    /\ queues_created = 0
    /\ pipelines_created = 0
    /\ render_tick = 0
    /\ last_render = "none"
    /\ close_delivered = FALSE
    /\ hazard = FALSE

Next ==
    \/ Allocate \/ FillA \/ FillB \/ BuildPipeline \/ Encode \/ Commit
    \/ GPUExecute \/ Wait \/ Verify
    \/ Resumed \/ CloseRequested \/ KeyboardEscape \/ RedrawRequested
    \/ SystemRedraw \/ Resized \/ GPUComplete

Spec == Init /\ [][Next]_vars

\* the event loop delivers every requested redraw
LiveSpec == Init /\ [][Next]_vars /\ WF_vars(RedrawRequested)

\* =================================================================== properties

Min(x, y) == IF x < y THEN x ELSE y
Count(ops, op) == Cardinality({i \in DOMAIN ops : ops[i] = op})
UpTo(n) == [i \in 1 .. (n + 1) |-> i - 1]     \* <<0, 1, .., n>>

\* C1: the CPU never writes through a host-visible pointer into a buffer while
\* a command buffer that binds the buffer is committed and not yet completed
\* (compute: the input buffers; render: the viewport buffer, over any number
\* of frames).
C1_NoCpuWriteWhileGpuMayRead == ~hazard

\* C2: verify_results reads the buffers only after the command buffer has
\* completed: whenever main is at or past verify_results, the command buffer
\* went through dispatch, end_encoding and commit in that order and is
\* completed, and it was completed when verify_results read.
C2_ReadbackAfterCompletion ==
    /\ pc \in {"verify", "done"} =>
           /\ command_buffer.status = "completed"
           /\ command_buffer.ops = <<"new_command_buffer", "dispatch_threads",
                                     "end_encoding", "commit">>
    /\ verified # None =>
           /\ verified.gpu_status = "completed"
           /\ verified.ops_before = <<"new_command_buffer", "dispatch_threads",
                                      "end_encoding", "commit">>

\* C2 witness: verify_results has run
C2_Witness == program = "compute" /\ pc = "done" /\ verified # None

\* C3: the threadgroup width passed to dispatch_threads is min(M, N), at most M
\* and at most N, and the grid width is N.
C3_ThreadgroupWidthIsMin ==
    command_buffer # None =>
        /\ command_buffer.threadgroup_width = Min(max_threads, array_length)
        /\ command_buffer.threadgroup_width <= max_threads
        /\ command_buffer.threadgroup_width <= array_length
        /\ command_buffer.grid_width = array_length

\* C3 witness: a dispatch was encoded with the pipeline maximum above the
\* element count
C3_Witness ==
    /\ command_buffer # None
    /\ max_threads > array_length
    /\ command_buffer.threadgroup_width = array_length

\* C4: a render() call that finds no drawable changes nothing: not the
\* viewport buffer, the vertex buffer, the pipeline state, the command queue
\* or its command buffers, nor the window (its size, its exit state).
C4_SkipIsNoOp ==
    [][(/\ metal_state # None
        /\ ~next_drawable
        /\ render_tick' # render_tick)
       => /\ last_render' = "skipped"
          /\ metal_state' = metal_state
          /\ inflight' = inflight
          /\ drawable_size' = drawable_size
          /\ queues_created' = queues_created
          /\ pipelines_created' = pipelines_created
          /\ exiting' = exiting
          /\ hazard' = hazard]_vars

\* C4 witness: render() skipped a frame while the viewport buffer does not
\* hold the current drawable size
C4_Witness ==
    /\ last_render = "skipped"
    /\ metal_state # None
    /\ metal_state.viewport_buffer.contents # drawable_size

\* C5: once a CloseRequested or Escape event has been delivered to
\* window_event the event loop is exiting (and so render() is not invoked
\* again), whenever the event was delivered.
C5_CloseTerminates == close_delivered => exiting

\* C6: in every rendered frame the viewport buffer holds, when the draw is
\* encoded, the drawable size current for the frame, and the viewport
\* rectangle has that size.
C6_ViewportCurrentAtDraw ==
    \A i \in DOMAIN inflight :
        /\ inflight[i].viewport_at_draw = inflight[i].frame_size
        /\ inflight[i].viewport = inflight[i].frame_size

\* C6 witness: two consecutive frames of one layer drawn at different
\* drawable sizes
C6_Witness ==
    \E i \in DOMAIN inflight :
        /\ i > 1
        /\ inflight[i - 1].layer = inflight[i].layer
        /\ inflight[i - 1].frame_size # inflight[i].frame_size

\* a command buffer's operations: created once, committed at most once, and
\* nothing after the commit
SingleUse(ops) ==
    /\ Len(ops) >= 1 /\ ops[1] = "new_command_buffer"
    /\ Count(ops, "new_command_buffer") = 1
    /\ Count(ops, "commit") <= 1
    /\ \A i \in DOMAIN ops : ops[i] = "commit" => i = Len(ops)

\* C7: every command buffer is committed exactly once and is not encoded
\* into, presented or committed after the commit; every rendered frame adds
\* one fresh command buffer and leaves the earlier ones alone.
C7_CommandBuffersSingleUse ==
    /\ [](/\ command_buffer # None =>
                /\ SingleUse(command_buffer.ops)
                /\ (command_buffer.status \in {"committed", "completed"}
                      <=> Count(command_buffer.ops, "commit") = 1)
          /\ \A i \in DOMAIN inflight :
                /\ SingleUse(inflight[i].ops)
                /\ Count(inflight[i].ops, "commit") = 1)
    /\ [][(render_tick' # render_tick /\ last_render' = "drawn")
          => /\ Len(inflight') = Len(inflight) + 1
             /\ SubSeq(inflight', 1, Len(inflight)) = inflight]_vars

\* C7 witness: two frames' command buffers are committed and uncompleted
C7_Witness == Len(inflight) >= 2

\* C8: exactly one command queue and one pipeline state are created over the
\* process lifetime, whatever events are delivered, and every frame's command
\* buffer comes from that queue and binds that pipeline state.
C8_OneQueueOnePipeline ==
    /\ queues_created <= 1
    /\ pipelines_created <= 1
    /\ \A i \in DOMAIN inflight :
           inflight[i].queue = 1 /\ inflight[i].pipeline = 1

\* element i of the result differs from a[i] + b[i] by more than the tolerance
Mismatch(i) ==
    Abs(result_buffer[i] - (buffer_a[i] + buffer_b[i])) > Tolerance
Mismatches == {i \in Indices(array_length) : Mismatch(i)}
FirstMismatch == CHOOSE i \in Mismatches : \A j \in Mismatches : i <= j

\* C9: verify_results scans in increasing order; with no mismatch it reports
\* success and no error; otherwise it reports the lowest mismatching index
\* only, examines nothing after it and does not report success; either way
\* main returns and the exit status is 0.
C9_VerifyFirstMismatch ==
    verified # None =>
        /\ IF Mismatches = {}
           THEN /\ verified.outcome.success
                /\ verified.outcome.printed_ok
                /\ verified.outcome.errors = <<>>
                /\ verified.outcome.examined = UpTo(array_length - 1)
           ELSE /\ ~verified.outcome.success
                /\ ~verified.outcome.printed_ok
                /\ verified.outcome.errors = <<FirstMismatch>>
                /\ verified.outcome.examined = UpTo(FirstMismatch)
        /\ pc = "done"
        /\ exit_status = [code |-> 0]

\* C9 witness: verify_results ran on a result with two mismatches, the first
\* one not at index 0
C9_Witness ==
    /\ verified # None
    /\ Cardinality(Mismatches) >= 2
    /\ FirstMismatch > 0

\* C10: every render() call is one call followed by a redraw request, drawable
\* or not; so, when every requested redraw is delivered, render() keeps being
\* called until a close or escape event makes the event loop exit.
C10_RenderLoopNeverStalls ==
    /\ [][render_tick' # render_tick
          => /\ render_tick' = (render_tick + 1) % 3
             /\ redraw_pending']_vars
    /\ \A t \in 0 .. 2 :
           (metal_state # None /\ render_tick = t)
               ~> (exiting \/ render_tick # t)

\* C10 witness: a frame was skipped for want of a drawable and the next redraw
\* is requested
C10_Witness ==
    metal_state # None /\ last_render = "skipped" /\ redraw_pending /\ ~exiting

====
